---------------------------- MODULE Spec2Model ----------------------------
(***************************************************************************)
(* A model of simple_size (src/lib.rs): the Unit value type, a byte count  *)
(* held in an f32, with its constructors, parser (FromStr), formatter      *)
(* (Display) and arithmetic operators.                                     *)
(*                                                                         *)
(* An f32 is modelled exactly.  A finite value is sign * m * 2^e with m    *)
(* odd (or m = 0, e = 0), m < 2^24, e >= -149 and m * 2^e < 2^128, so that *)
(* two finite values are equal iff their records are (up to the sign of    *)
(* zero).  Arithmetic is IEEE 754 binary32, round to nearest, ties to      *)
(* even.  Strings are sequences of one-character strings.                  *)
(***************************************************************************)
EXTENDS Integers, Sequences, FiniteSets, TLC

VARIABLES
    inp,    \* which inputs this run was given: "f32", "u64", "str", "whole",
            \* "unit" or "pair"
    src,    \* the input string
    cnt,    \* the input integer
    ua, ub, \* the input values: f32 numbers, or Units (left and right operand)
    hist    \* the calls made so far, each with what it returned
vars == <<inp, src, cnt, ua, ub, hist>>

-----------------------------------------------------------------------------
(* binary32 *)

\* f32: 24 bits of significand (one implicit)
MantBits == 24
\* f32: the exponent of the least subnormal, 2^-149
MinExp == -149
\* f32: values of magnitude >= 2^128 round to infinity
OverflowExp == 128

RECURSIVE Pow2(_)
Pow2(n) == IF n = 0 THEN 1 ELSE 2 * Pow2(n - 1)

RECURSIVE BitLen(_)
BitLen(n) == IF n = 0 THEN 0 ELSE 1 + BitLen(n \div 2)

Max(x, y) == IF x >= y THEN x ELSE y
Min(x, y) == IF x <= y THEN x ELSE y

NaN == [k |-> "nan", neg |-> FALSE, m |-> 0, e |-> 0]
Inf(neg) == [k |-> "inf", neg |-> neg, m |-> 0, e |-> 0]
Zero(neg) == [k |-> "fin", neg |-> neg, m |-> 0, e |-> 0]

\* the finite value (-1)^neg * m * 2^e, m not zero, in canonical form
RECURSIVE Norm(_, _, _)
Norm(neg, m, e) ==
    IF m = 0 THEN Zero(neg)
    ELSE IF m % 2 = 0 THEN Norm(neg, m \div 2, e + 1)
    ELSE [k |-> "fin", neg |-> neg, m |-> m, e |-> e]

IsNaN(x) == x.k = "nan"
IsInf(x) == x.k = "inf"
IsFin(x) == x.k = "fin"
IsZero(x) == x.k = "fin" /\ x.m = 0
\* the exponent of the leading bit of a finite non-zero value
Top(x) == BitLen(x.m) - 1 + x.e

\* Round (-1)^neg * (X + f) * 2^E to binary32, where 0 <= X < 2^30 and f = 0
\* when sticky is false, 0 < f < 1 when it is true (then X has over 25 bits).
RoundF(neg, X, sticky, E) ==
    IF X = 0 THEN Zero(neg)
    ELSE
      LET top == BitLen(X) - 1 + E
          q   == Max(top - (MantBits - 1), MinExp)
          sh  == q - E
      IN  IF sh <= 0
          THEN IF top >= OverflowExp THEN Inf(neg) ELSE Norm(neg, X, E)
          ELSE IF sh > 30 THEN Zero(neg)
          ELSE
            LET p    == Pow2(sh)
                half == p \div 2
                Q    == X \div p
                R    == X % p
                up   == \/ R > half
                        \/ R = half /\ (sticky \/ Q % 2 = 1)
                Q1   == IF up THEN Q + 1 ELSE Q
            IN  IF Q1 = 0 THEN Zero(neg)
                ELSE IF BitLen(Q1) - 1 + q >= OverflowExp THEN Inf(neg)
                ELSE Norm(neg, Q1, q)

FNeg(x) == IF IsNaN(x) THEN x ELSE [x EXCEPT !.neg = ~x.neg]
FAbs(x) == IF IsNaN(x) THEN x ELSE [x EXCEPT !.neg = FALSE]

\* x * y in binary32.  The 48-bit product of the significands is formed in
\* two 24-bit words hi, lo from 12-bit limbs.
FMul(x, y) ==
    IF IsNaN(x) \/ IsNaN(y) THEN NaN
    ELSE IF (IsInf(x) /\ IsZero(y)) \/ (IsZero(x) /\ IsInf(y)) THEN NaN
    ELSE IF IsInf(x) \/ IsInf(y) THEN Inf(x.neg # y.neg)
    ELSE IF IsZero(x) \/ IsZero(y) THEN Zero(x.neg # y.neg)
    ELSE
      LET neg == x.neg # y.neg
          x1 == x.m \div 4096
          x0 == x.m % 4096
          y1 == y.m \div 4096
          y0 == y.m % 4096
          mid == x1 * y0 + x0 * y1
          low == x0 * y0 + (mid % 4096) * 4096
          lo  == low % 16777216
          hi  == x1 * y1 + mid \div 4096 + low \div 16777216
          E   == x.e + y.e
      IN  IF hi = 0 THEN RoundF(neg, lo, FALSE, E)
          ELSE
            LET kk == Min(24, 30 - BitLen(hi))
                p  == Pow2(24 - kk)
            IN  RoundF(neg, hi * Pow2(kk) + lo \div p, lo % p # 0, E + 24 - kk)

\* n more bits of the quotient by long division: <<quotient, remainder>>
RECURSIVE DivBits(_, _, _, _)
DivBits(q, rem, d, n) ==
    IF n = 0 THEN <<q, rem>>
    ELSE IF 2 * rem >= d THEN DivBits(2 * q + 1, 2 * rem - d, d, n - 1)
    ELSE DivBits(2 * q, 2 * rem, d, n - 1)

\* (-1)^neg * (n / d) * 2^E rounded to binary32, for 0 < n, d < 2^30
RoundQuot(neg, n, d, E) ==
    LET k  == 27 - (BitLen(n) - BitLen(d))
        qr == DivBits(n \div d, n % d, d, k)
    IN  RoundF(neg, qr[1], qr[2] # 0, E - k)

\* x / y in binary32
FDiv(x, y) ==
    IF IsNaN(x) \/ IsNaN(y) THEN NaN
    ELSE IF (IsInf(x) /\ IsInf(y)) \/ (IsZero(x) /\ IsZero(y)) THEN NaN
    ELSE IF IsInf(x) \/ IsZero(y) THEN Inf(x.neg # y.neg)
    ELSE IF IsInf(y) \/ IsZero(x) THEN Zero(x.neg # y.neg)
    ELSE RoundQuot(x.neg # y.neg, x.m, y.m, x.e - y.e)

\* x + y in binary32.  Both operands are brought to the unit 2^E, 26 bits
\* below the leading bit of the larger; what an operand loses below that
\* unit is kept as a sticky bit.
FAdd(x, y) ==
    IF IsNaN(x) \/ IsNaN(y) THEN NaN
    ELSE IF IsInf(x) /\ IsInf(y) THEN (IF x.neg = y.neg THEN x ELSE NaN)
    ELSE IF IsInf(x) THEN x
    ELSE IF IsInf(y) THEN y
    ELSE IF IsZero(x) /\ IsZero(y) THEN Zero(x.neg /\ y.neg)
    ELSE IF IsZero(x) THEN y
    ELSE IF IsZero(y) THEN x
    ELSE
      LET E == Max(Top(x), Top(y)) - 26
          Scaled(z) ==
              LET d == z.e - E
              IN  IF d >= 0 THEN <<z.m * Pow2(d), FALSE>>
                  ELSE IF -d > MantBits THEN <<0, TRUE>>
                  ELSE <<z.m \div Pow2(-d), z.m % Pow2(-d) # 0>>
          sx == Scaled(x)
          sy == Scaled(y)
      IN  IF x.neg = y.neg
          THEN RoundF(x.neg, sx[1] + sy[1], sx[2] \/ sy[2], E)
          ELSE IF sx[1] = sy[1] THEN Zero(FALSE)
          ELSE
            LET big == IF sx[1] > sy[1] THEN sx ELSE sy
                sml == IF sx[1] > sy[1] THEN sy ELSE sx
                neg == IF sx[1] > sy[1] THEN x.neg ELSE y.neg
            IN  RoundF(neg, big[1] - sml[1] - (IF sml[2] THEN 1 ELSE 0), sml[2], E)

FSub(x, y) == FAdd(x, FNeg(y))

\* x >= y as f32 compares: false when either is NaN, and -0 = +0
FGe(x, y) ==
    IF IsNaN(x) \/ IsNaN(y) THEN FALSE
    ELSE IF IsZero(x) /\ IsZero(y) THEN TRUE
    ELSE IF x.neg # y.neg THEN y.neg
    ELSE
      LET magGe(u, v) ==   \* |u| >= |v|
              IF IsInf(u) THEN TRUE
              ELSE IF IsInf(v) THEN FALSE
              ELSE IF IsZero(v) THEN TRUE
              ELSE IF IsZero(u) THEN FALSE
              ELSE IF Top(u) # Top(v) THEN Top(u) > Top(v)
              ELSE IF u.e >= v.e THEN u.m * Pow2(u.e - v.e) >= v.m
              ELSE u.m >= v.m * Pow2(v.e - u.e)
      IN  IF x.neg THEN magGe(y, x) ELSE magGe(x, y)

-----------------------------------------------------------------------------
(* text: a string is a sequence of characters, each a one-character string; *)
(* "sup2" stands for U+00B2, a numeric character of two bytes in UTF-8      *)

Digits == <<"0", "1", "2", "3", "4", "5", "6", "7", "8", "9">>
IsDigit(c) == \E i \in 1..10 : Digits[i] = c
DigitVal(c) == (CHOOSE i \in 1..10 : Digits[i] = c) - 1

\* char::is_numeric
IsNumeric(c) == IsDigit(c) \/ c = "sup2"
\* char::len_utf8
ByteLen(c) == IF c = "sup2" THEN 2 ELSE 1
\* char::is_whitespace
IsSpace(c) == c = " "
\* char::to_ascii_lowercase, on the letters the float grammar names
Lower(c) ==
    CASE c = "I" -> "i" [] c = "N" -> "n" [] c = "F" -> "f" [] c = "A" -> "a"
      [] c = "T" -> "t" [] c = "Y" -> "y" [] c = "E" -> "e" [] OTHER -> c

RECURSIVE TrimStart(_)
TrimStart(str) ==
    IF str # <<>> /\ IsSpace(Head(str)) THEN TrimStart(Tail(str)) ELSE str
RECURSIVE TrimEnd(_)
TrimEnd(str) ==
    IF str # <<>> /\ IsSpace(str[Len(str)])
    THEN TrimEnd(SubSeq(str, 1, Len(str) - 1)) ELSE str
\* str::trim_start in the place of str::trim
TrimStartOnly(str) == TrimStart(str)
\* str::trim
Trim(str) == TrimEnd(TrimStart(str))

\* the replace left out
ReplaceNothing(str) == str
\* str::replace(",", ".")
ReplaceComma(str) == [i \in 1..Len(str) |-> IF str[i] = "," THEN "." ELSE str[i]]

\* the byte offset at which character i of str starts
RECURSIVE ByteOffset(_, _)
ByteOffset(str, i) ==
    IF i = 1 THEN 0 ELSE ByteOffset(str, i - 1) + ByteLen(str[i - 1])
ByteSize(str) == ByteOffset(str, Len(str) + 1)

\* str::rfind(char::is_numeric): the byte offset of the last numeric
\* character, -1 for None
RFindNumeric(str) ==
    LET hits == {i \in 1..Len(str) : IsNumeric(str[i])}
    IN  IF hits = {} THEN -1
        ELSE ByteOffset(str, CHOOSE i \in hits : \A j \in hits : j <= i)

\* str::split_at_checked(mid): None unless mid is on a character boundary
SplitAtChecked(str, mid) ==
    LET cuts == {i \in 0..Len(str) : ByteOffset(str, i + 1) = mid}
    IN  IF cuts = {} THEN [some |-> FALSE, left |-> <<>>, right |-> <<>>]
        ELSE LET i == CHOOSE i \in cuts : TRUE
             IN  [some |-> TRUE, left |-> SubSeq(str, 1, i),
                  right |-> SubSeq(str, i + 1, Len(str))]

RECURSIVE Pow5(_)
Pow5(n) == IF n = 0 THEN 1 ELSE 5 * Pow5(n - 1)
RECURSIVE Pow10(_)
Pow10(n) == IF n = 0 THEN 1 ELSE 10 * Pow10(n - 1)

\* the length of the longest prefix of str made of decimal digits
RECURSIVE DigitRun(_)
DigitRun(str) ==
    IF str # <<>> /\ IsDigit(Head(str)) THEN 1 + DigitRun(Tail(str)) ELSE 0

\* the number a sequence of decimal digits writes
RECURSIVE DigitsVal(_)
DigitsVal(str) ==
    IF str = <<>> THEN 0
    ELSE 10 * DigitsVal(SubSeq(str, 1, Len(str) - 1)) + DigitVal(str[Len(str)])

Drop(str, n) == SubSeq(str, n + 1, Len(str))

\* the decimal digits of n >= 0
RECURSIVE IntToStr(_)
IntToStr(n) ==
    IF n < 10 THEN <<Digits[n + 1]>>
    ELSE IntToStr(n \div 10) \o <<Digits[(n % 10) + 1]>>

\* the decimal digits of f times the number ds writes, for 0 < f <= 1024
RECURSIVE TimesCarry(_, _, _)
TimesCarry(ds, f, carry) ==
    IF ds = <<>> THEN (IF carry = 0 THEN <<>> ELSE IntToStr(carry))
    ELSE LET d == f * DigitVal(ds[Len(ds)]) + carry
         IN  TimesCarry(SubSeq(ds, 1, Len(ds) - 1), f, d \div 10) \o <<Digits[(d % 10) + 1]>>
RECURSIVE TimesPow2(_, _)
TimesPow2(ds, k) ==
    IF k = 0 THEN ds
    ELSE IF k >= 10 THEN TimesPow2(TimesCarry(ds, 1024, 0), k - 10)
    ELSE TimesCarry(ds, Pow2(k), 0)
RECURSIVE TimesPow5(_, _)
TimesPow5(ds, k) ==
    IF k = 0 THEN ds
    ELSE IF k >= 4 THEN TimesPow5(TimesCarry(ds, 625, 0), k - 4)
    ELSE TimesCarry(ds, Pow5(k), 0)

RECURSIVE StripZeros(_)
StripZeros(ds) ==
    IF ds # <<>> /\ Head(ds) = "0" THEN StripZeros(Tail(ds)) ELSE ds

\* long division of the number ds writes by d <= 1024, from remainder rem on:
\* <<the quotient's digits, the remainder>>
RECURSIVE DivSmall(_, _, _)
DivSmall(ds, d, rem) ==
    IF ds = <<>> THEN <<<<>>, rem>>
    ELSE LET cur  == 10 * rem + DigitVal(Head(ds))
             rest == DivSmall(Tail(ds), d, cur % d)
         IN  <<<<Digits[(cur \div d) + 1]>> \o rest[1], rest[2]>>

\* <<floor(ds / 2^k) without leading zeros, whether a remainder was dropped>>
RECURSIVE DivPow2(_, _, _)
DivPow2(ds, k, sticky) ==
    IF k = 0 THEN <<ds, sticky>>
    ELSE LET step == Min(k, 10)
             qr   == DivSmall(ds, Pow2(step), 0)
         IN  DivPow2(StripZeros(qr[1]), k - step, sticky \/ qr[2] # 0)
\* the same for 5^k
RECURSIVE DivPow5(_, _, _)
DivPow5(ds, k, sticky) ==
    IF k = 0 THEN <<ds, sticky>>
    ELSE LET step == Min(k, 4)
             qr   == DivSmall(ds, Pow5(step), 0)
         IN  DivPow5(StripZeros(qr[1]), k - step, sticky \/ qr[2] # 0)

\* the number ds writes (no leading zeros, not zero), with what lies below
\* sticky, times 2^E, rounded to binary32: halved until it has 9 digits
RoundBig(neg, ds, sticky, E) ==
    LET k  == IF Len(ds) <= 9 THEN 0 ELSE (10 * (Len(ds) - 9)) \div 3 - 2
        qr == DivPow2(ds, k, sticky)
        h  == IF Len(qr[1]) <= 9 THEN 0 ELSE IF Len(qr[1]) = 10 THEN 4 ELSE 7
        hr == DivPow2(qr[1], h, qr[2])
    IN  RoundF(neg, DigitsVal(hr[1]), hr[2], E + k + h)

\* (-1)^neg * digs * 10^p correctly rounded to binary32 (dec2flt), as
\* digs * 5^p * 2^p.  Short inputs go the direct way; long ones are first
\* scaled by 2^j, where needed, so that the quotient by 5^-p keeps over 26
\* bits.
DecToF32(neg, digs, p) ==
    LET ds == StripZeros(digs)
    IN  IF ds = <<>> THEN Zero(neg)
        ELSE IF Len(ds) <= 9 /\ p <= 0 /\ p >= -12
             THEN IF p = 0 THEN RoundF(neg, DigitsVal(ds), FALSE, 0)
                  ELSE RoundQuot(neg, DigitsVal(ds), Pow5(-p), p)
        ELSE IF p >= 0 THEN RoundBig(neg, TimesPow5(ds, p), FALSE, p)
        ELSE LET j  == Max(0, 31 + 3 * (-p) - 3 * Len(ds))
                 qr == DivPow5(TimesPow2(ds, j), -p, FALSE)
             IN  RoundBig(neg, qr[1], qr[2], p - j)

\* <f32 as FromStr>::from_str:
\*   Float  ::= Sign? ( 'inf' | 'infinity' | 'nan' | Number )
\*   Number ::= ( Digit+ | Digit+ '.' Digit* | Digit* '.' Digit+ ) Exp?
\*   Exp    ::= 'e' Sign? Digit+
ParseF32(str) ==
    LET bad    == [ok |-> FALSE, val |-> NaN]
        signed == str # <<>> /\ Head(str) \in {"+", "-"}
        neg    == signed /\ Head(str) = "-"
        body   == IF signed THEN Tail(str) ELSE str
        low    == [i \in 1..Len(body) |-> Lower(body[i])]
        ni     == DigitRun(body)
        rest1  == Drop(body, ni)
        dot    == rest1 # <<>> /\ Head(rest1) = "."
        rest2  == IF dot THEN Tail(rest1) ELSE rest1
        nf     == IF dot THEN DigitRun(rest2) ELSE 0
        rest3  == Drop(rest2, nf)
        hasE   == rest3 # <<>> /\ Lower(Head(rest3)) = "e"
        rest4  == IF hasE THEN Tail(rest3) ELSE rest3
        esign  == hasE /\ rest4 # <<>> /\ Head(rest4) \in {"+", "-"}
        rest5  == IF esign THEN Tail(rest4) ELSE rest4
        ne     == IF hasE THEN DigitRun(rest5) ELSE 0
        rest6  == Drop(rest5, ne)
        D      == SubSeq(body, 1, ni) \o SubSeq(rest2, 1, nf)
        ex     == DigitsVal(SubSeq(rest5, 1, ne))
        p      == (IF esign /\ Head(rest4) = "-" THEN -ex ELSE ex) - nf
    IN  IF body = <<>> THEN bad
        ELSE IF low \in {<<"i", "n", "f">>, <<"i", "n", "f", "i", "n", "i", "t", "y">>}
             THEN [ok |-> TRUE, val |-> Inf(neg)]
        ELSE IF low = <<"n", "a", "n">> THEN [ok |-> TRUE, val |-> NaN]
        ELSE IF ni + nf = 0 THEN bad
        ELSE IF hasE /\ ne = 0 THEN bad
        ELSE IF rest6 # <<>> THEN bad
        ELSE [ok |-> TRUE, val |-> DecToF32(neg, D, p)]

SignStr(x) == IF x.neg THEN <<"-">> ELSE <<>>

\* format!("{:.2}", x) for an f32: the exact value rounded to two decimals,
\* ties to even
Fixed2(x) ==
    IF IsNaN(x) THEN <<"N", "a", "N">>
    ELSE IF IsInf(x) THEN SignStr(x) \o <<"i", "n", "f">>
    ELSE IF x.e >= 0
         THEN SignStr(x) \o TimesPow2(IntToStr(x.m), x.e) \o <<".", "0", "0">>
    ELSE
      LET k  == -x.e
          h  == 100 * x.m
          N  == IF k > 31 THEN 0
                ELSE IF k = 31 THEN (IF h > Pow2(30) THEN 1 ELSE 0)
                ELSE LET p == Pow2(k)
                         Q == h \div p
                         R == h % p
                     IN  IF 2 * R > p \/ (2 * R = p /\ Q % 2 = 1) THEN Q + 1 ELSE Q
          ds == IntToStr(N)
          pad == IF Len(ds) < 3 THEN SubSeq(<<"0", "0">>, 1, 3 - Len(ds)) \o ds ELSE ds
      IN  SignStr(x) \o SubSeq(pad, 1, Len(pad) - 2) \o <<".">>
            \o SubSeq(pad, Len(pad) - 1, Len(pad))

\* format!("{}", x) for an f32: the shortest decimal that parses back to x
\* (the nearer one when two of that length do), never in exponent form.
\* Shortest(x, k) tries k decimals and then more; it is exact at k = -x.e.
RECURSIVE Shortest(_, _)
Shortest(x, k) ==
    LET mag   == FAbs(x)
        num   == x.m * Pow10(k)
        den   == Pow2(-x.e)
        lo    == num \div den
        rem   == num % den
        first == IF 2 * rem <= den THEN lo ELSE lo + 1
        other == IF 2 * rem <= den THEN lo + 1 ELSE lo
        back(N) == DecToF32(FALSE, IntToStr(N), -k) = mag
        text(N) ==
            LET ds  == IntToStr(N)
                pad == IF Len(ds) <= k
                       THEN [i \in 1..(k + 1 - Len(ds)) |-> "0"] \o ds ELSE ds
            IN  SubSeq(pad, 1, Len(pad) - k) \o <<".">>
                  \o SubSeq(pad, Len(pad) - k + 1, Len(pad))
    IN  IF back(first) THEN text(first)
        ELSE IF back(other) THEN text(other)
        ELSE Shortest(x, k + 1)

Display(x) ==
    IF IsNaN(x) THEN <<"N", "a", "N">>
    ELSE IF IsInf(x) THEN SignStr(x) \o <<"i", "n", "f">>
    ELSE IF x.e >= 0 THEN SignStr(x) \o IntToStr(x.m * Pow2(x.e))
    ELSE SignStr(x) \o Shortest(x, 1)

-----------------------------------------------------------------------------
(* the library *)

KB == 10
MB == 20
GB == 30
TB == 40

\* 2_u64.pow(dec) as f32, for dec < 64: a power of two, exact in binary32
U64Pow2AsF32(dec) == Norm(FALSE, 1, dec)

\* down_from with up_to's body: divides where it should multiply
down_from_divides(lhs, dec) == FDiv(lhs, U64Pow2AsF32(dec))
down_from(lhs, dec) == FMul(lhs, U64Pow2AsF32(dec))
\* up_to with down_from's body: multiplies where it should divide
up_to_multiplies(lhs, dec) == FMul(lhs, U64Pow2AsF32(dec))
up_to(lhs, dec) == FDiv(lhs, U64Pow2AsF32(dec))

\* A Unit is its f32 byte count.
as_bytes(self) == self
from_bytes(value) == value
from_kilo_bytes(value) == down_from(value, KB)
from_mega_bytes(value) == down_from(value, MB)
from_giga_bytes(value) == down_from(value, GB)
from_tera_bytes(value) == down_from(value, TB)

\* From<u64>: value as f32 rounds to nearest (value < 2^31 here)
from_u64(value) == RoundF(FALSE, value, FALSE, 0)
\* From<f32>
from_f32(value) == value

\* impl_op!: the four operators on the byte counts
add(self, rhs) == FAdd(self, rhs)
\* the operands of the subtraction swapped
sub_swapped(self, rhs) == FSub(rhs, self)
sub(self, rhs) == FSub(self, rhs)
mul(self, rhs) == FMul(self, rhs)
\* a division that fails on a zero divisor, as an integer division does
div_checked(self, rhs) ==
    IF ~IsNaN(rhs) /\ IsZero(rhs) THEN [k |-> "panic", neg |-> FALSE, m |-> 0, e |-> 0]
    ELSE FDiv(self, rhs)
div(self, rhs) == FDiv(self, rhs)
Ops == {"add", "sub", "mul", "div"}
Apply(op, self, rhs) ==
    CASE op = "add" -> add(self, rhs)
      [] op = "sub" -> sub(self, rhs)
      [] op = "mul" -> mul(self, rhs)
      [] op = "div" -> div(self, rhs)

\* err_message(s), and the same followed by the float parser's own message:
\* the error carries the input, and whether the float parser's text follows
err_message(str) == [input |-> str, float_err |-> FALSE]
Ok(u) == [ok |-> TRUE, unit |-> u, err |-> err_message(<<>>)]
Err(e) == [ok |-> FALSE, unit |-> Zero(FALSE), err |-> e]

Upper(c) ==
    CASE c = "k" -> "K" [] c = "b" -> "B" [] c = "m" -> "M" [] c = "g" -> "G"
      [] c = "t" -> "T" [] OTHER -> c
\* the match made on the suffix in upper case
match_unit_anycase(str, unit, value) ==
    LET up == [i \in 1..Len(unit) |-> Upper(unit[i])]
    IN  IF up = <<"B">> THEN Ok(from_bytes(value))
        ELSE IF up = <<"K", "B">> THEN Ok(from_kilo_bytes(value))
        ELSE IF up = <<"M", "B">> THEN Ok(from_mega_bytes(value))
        ELSE IF up = <<"G", "B">> THEN Ok(from_giga_bytes(value))
        ELSE IF up = <<"T", "B">> THEN Ok(from_tera_bytes(value))
        ELSE Err(err_message(str))
\* the match with the "KB" arm calling the "MB" constructor
match_unit_slip(str, unit, value) ==
    IF unit = <<"B">> THEN Ok(from_bytes(value))
    ELSE IF unit = <<"K", "B">> THEN Ok(from_mega_bytes(value))
    ELSE IF unit = <<"M", "B">> THEN Ok(from_mega_bytes(value))
    ELSE IF unit = <<"G", "B">> THEN Ok(from_giga_bytes(value))
    ELSE IF unit = <<"T", "B">> THEN Ok(from_tera_bytes(value))
    ELSE Err(err_message(str))

\* the match on the unit suffix, which is compared as written
match_unit(str, unit, value) ==
    IF unit = <<"B">> THEN Ok(from_bytes(value))
    ELSE IF unit = <<"K", "B">> THEN Ok(from_kilo_bytes(value))
    ELSE IF unit = <<"M", "B">> THEN Ok(from_mega_bytes(value))
    ELSE IF unit = <<"G", "B">> THEN Ok(from_giga_bytes(value))
    ELSE IF unit = <<"T", "B">> THEN Ok(from_tera_bytes(value))
    ELSE Err(err_message(str))

\* <Unit as FromStr>::from_str
from_str(str) ==
    LET index == RFindNumeric(str)
        split == SplitAtChecked(str, index + 1)
        value == ParseF32(ReplaceComma(Trim(split.left)))
        unit  == Trim(split.right)
    IN  IF index = -1 THEN Err(err_message(str))
        ELSE IF ~split.some THEN Err(err_message(str))
        ELSE IF ~value.ok THEN Err([input |-> str, float_err |-> TRUE])
        ELSE match_unit(str, unit, value.val)

One == Norm(FALSE, 1, 0)
MinusOne == Norm(TRUE, 1, 0)

\* f32::is_sign_negative (the sign of a NaN does not reach the output)
is_sign_negative(x) == ~IsNaN(x) /\ x.neg

\* the thresholds compared with the signed value
fmt_value_signed(self) == self
\* the magnitude the thresholds are compared with
fmt_value(self) == IF is_sign_negative(self) THEN FMul(self, MinusOne) ELSE self

\* the body of fmt: value picks the tier, shown is what is divided and written
fmt_with(shown, value) ==
    IF FGe(value, down_from(One, TB)) THEN Fixed2(up_to(shown, TB)) \o <<"T", "B">>
    ELSE IF FGe(value, down_from(One, GB)) THEN Fixed2(up_to(shown, GB)) \o <<"G", "B">>
    ELSE IF FGe(value, down_from(One, MB)) THEN Fixed2(up_to(shown, MB)) \o <<"M", "B">>
    ELSE IF FGe(value, down_from(One, KB)) THEN Fixed2(up_to(shown, KB)) \o <<"K", "B">>
    ELSE Display(shown) \o <<"B">>

\* the magnitude written where the signed value should be
fmt_shows_value(self) == fmt_with(fmt_value(self), fmt_value(self))
\* <Unit as Display>::fmt, and with it to_string
fmt(self) == fmt_with(self, fmt_value(self))

-----------------------------------------------------------------------------
(* inputs *)

\* significands 1..MaxMant, binary exponents -MaxFrac..MaxShift
MaxMant == 9
MaxFrac == 4
MaxShift == 44
\* strings over Alphabet up to this length
MaxLen == 4
\* whole numbers written out as "<n><suffix>"
MaxWhole == 1030
\* operands of the arithmetic: the integers up to MaxInt and a few others
MaxInt == 6

\* 2^20 - 1 and 2^24 - 1: the largest values below a tier's threshold
WideMants == {1048575, 16777215}
\* beside the range: the least subnormal's exponent, and exponents near the
\* largest finite value's (16777215 * 2^104)
EdgeExps == {MinExp, 88, 100, 104}

Finite(ms, es) ==
    {Norm(neg, m, e) : neg \in BOOLEAN, m \in ms, e \in es}
Specials == {NaN, Inf(FALSE), Inf(TRUE), Zero(FALSE), Zero(TRUE)}

\* the f32 values given to the constructors
F32Inputs ==
    Specials \cup Finite((1..MaxMant) \cup WideMants, (-MaxFrac..MaxShift) \cup EdgeExps)

\* the Units given to the formatter: those whose last place is between
\* 2^-MaxFrac and 2^MaxShift (and the special values)
UnitInputs == {x \in F32Inputs : x.e >= -MaxFrac /\ x.e <= MaxShift + MantBits}

\* the Units given to the operators
ArithInputs ==
    Specials \cup Finite(1..MaxInt, {0})
      \cup Finite({3}, {-1}) \cup Finite({1, 16777215}, {MinExp, 104})

IntInputs == (0..MaxInt) \cup {1048575, 16777215, 16777217, 2147483647}

Alphabet == {"1", "5", "-", ",", ".", " ", "K", "B", "X", "k", "sup2"}
RECURSIVE Strings(_)
Strings(len) ==
    IF len = 0 THEN {<<>>}
    ELSE LET shorter == Strings(len - 1)
         IN  shorter \cup {Append(w, c) : w \in {v \in shorter : Len(v) = len - 1}, c \in Alphabet}

Suffixes == {<<"B">>, <<"K", "B">>, <<"M", "B">>, <<"G", "B">>, <<"T", "B">>}
OtherSuffixes ==
    {<<>>, <<"k", "b">>, <<"b">>, <<"X", "B">>, <<"K">>, <<"K", "i", "B">>,
     <<"P", "B">>, <<"K", "B", "s">>, <<"T", " ", "B">>, <<".", "K", "B">>}
Numbers ==
    {<<"1">>, <<"0">>, <<"1", "0">>, <<"1", ".", "5">>, <<"1", ",", "5">>,
     <<"0", ".", "1">>, <<",", "5">>, <<"1", "0", "2", "4">>, <<"1", "e", "3">>,
     <<"5", "E", "-", "1">>, <<"1", ",", "0", "0", "0">>, <<"1", ",", "2", ",", "3">>,
     <<"1", "6", "7", "7", "7", "2", "1", "7">>, <<"1", " ", "5">>, <<"a", "1">>}
Signs == {<<>>, <<"-">>, <<"+">>}
Blanks == {<<>>, <<" ">>}
Structured ==
    {w1 \o sg \o num \o w2 \o suf \o w3 :
        w1 \in Blanks, sg \in Signs, num \in Numbers, w2 \in Blanks,
        suf \in Suffixes \cup OtherSuffixes, w3 \in Blanks}
\* the inputs the repository's tests and documentation name
Named == {<<"a", "b", "c">>, <<"1", "0", "X", "B">>, <<"i", "n", "f", "B">>,
          <<"1", "sup2", "B">>, <<"-", " ", "1", "K", "B">>}
StrInputs == Strings(MaxLen) \cup Structured \cup Named

WholeStr(neg, num, suf) == (IF neg THEN <<"-">> ELSE <<>>) \o IntToStr(num) \o suf

-----------------------------------------------------------------------------
(* the calls *)

UnitOut(u) == [tag |-> "unit", val |-> u]
F32Out(x) == [tag |-> "f32", val |-> x]
TextOut(w) == [tag |-> "text", val |-> w]
ResultOut(res) == [tag |-> "result", val |-> res]
NoOut == [tag |-> "none", val |-> <<>>]

Call(op, out) == [op |-> op, out |-> out]
Last == hist[Len(hist)]
Blank == Zero(FALSE)

InitF32 ==
    /\ inp = "f32" /\ ua \in F32Inputs
    /\ ub = Blank /\ src = <<>> /\ cnt = 0 /\ hist = <<>>
InitU64 ==
    /\ inp = "u64" /\ cnt \in IntInputs
    /\ ua = Blank /\ ub = Blank /\ src = <<>> /\ hist = <<>>
InitStr ==
    /\ inp = "str" /\ src \in StrInputs
    /\ ua = Blank /\ ub = Blank /\ cnt = 0 /\ hist = <<>>
InitWhole ==
    /\ inp = "whole" /\ cnt \in 0..MaxWhole
    /\ \E neg \in BOOLEAN, suf \in Suffixes : src = WholeStr(neg, cnt, suf)
    /\ ua = Blank /\ ub = Blank /\ hist = <<>>
InitUnit ==
    /\ inp = "unit" /\ ua \in UnitInputs
    /\ ub = Blank /\ src = <<>> /\ cnt = 0 /\ hist = <<>>
InitPair ==
    /\ inp = "pair" /\ ua \in ArithInputs /\ ub \in ArithInputs
    /\ src = <<>> /\ cnt = 0 /\ hist = <<>>

Construct(name, u) ==
    /\ inp = "f32" /\ hist = <<>>
    /\ hist' = <<Call(name, UnitOut(u))>>
    /\ UNCHANGED <<inp, src, cnt, ua, ub>>

FromBytes == Construct("from_bytes", from_bytes(ua))
FromKiloBytes == Construct("from_kilo_bytes", from_kilo_bytes(ua))
FromMegaBytes == Construct("from_mega_bytes", from_mega_bytes(ua))
FromGigaBytes == Construct("from_giga_bytes", from_giga_bytes(ua))
FromTeraBytes == Construct("from_tera_bytes", from_tera_bytes(ua))
FromF32 == Construct("from_f32", from_f32(ua))
FromU64 ==
    /\ inp = "u64" /\ hist = <<>>
    /\ hist' = <<Call("from_u64", UnitOut(from_u64(cnt)))>>
    /\ UNCHANGED <<inp, src, cnt, ua, ub>>

\* as_bytes of the Unit just constructed
AsBytes ==
    /\ inp \in {"f32", "u64"} /\ Len(hist) = 1
    /\ hist' = Append(hist, Call("as_bytes", F32Out(as_bytes(Last.out.val))))
    /\ UNCHANGED <<inp, src, cnt, ua, ub>>

\* the string parse is given: the input, or the text formatting just returned
HasText ==
    IF hist = <<>> THEN inp \in {"str", "whole"}
    ELSE inp = "unit" /\ Len(hist) = 1 /\ Last.out.tag = "text"
TheText == IF hist = <<>> THEN src ELSE Last.out.val

\* s.parse::<Unit>(); through serde, deserialize
Parse ==
    /\ HasText
    /\ hist' = Append(hist, Call("from_str", ResultOut(from_str(TheText))))
    /\ UNCHANGED <<inp, src, cnt, ua, ub>>

\* the Unit formatting is given: the input, or the Unit parse just returned
HasUnit ==
    IF hist = <<>> THEN inp = "unit"
    ELSE /\ inp \in {"whole", "unit"}
         /\ Last.out.tag = "result"
         /\ Last.out.val.ok
TheUnit == IF hist = <<>> THEN ua ELSE Last.out.val.unit

\* unit.to_string(); through serde, serialize
Format ==
    /\ HasUnit
    /\ hist' = Append(hist, Call("fmt", TextOut(fmt(TheUnit))))
    /\ UNCHANGED <<inp, src, cnt, ua, ub>>

\* impl $trait for Unit: self op rhs
OpValue ==
    /\ inp = "pair" /\ hist = <<>>
    /\ \E op \in Ops : hist' = <<Call(op, UnitOut(Apply(op, ua, ub)))>>
    /\ UNCHANGED <<inp, src, cnt, ua, ub>>

\* impl $trait for &Unit: &self op &rhs
OpRef ==
    /\ inp = "pair" /\ hist = <<>>
    /\ \E op \in Ops : hist' = <<Call(op \o "_ref", UnitOut(Apply(op, ua, ub)))>>
    /\ UNCHANGED <<inp, src, cnt, ua, ub>>

\* impl ${trait}Assign for Unit: self op= rhs
OpAssign ==
    /\ inp = "pair" /\ hist = <<>>
    /\ \E op \in Ops :
          /\ ua' = Apply(op, ua, ub)
          /\ hist' = <<Call(op \o "_assign", NoOut)>>
    /\ UNCHANGED <<inp, src, cnt, ub>>

NextCtor ==
    \/ FromBytes \/ FromKiloBytes \/ FromMegaBytes \/ FromGigaBytes
    \/ FromTeraBytes \/ FromF32 \/ FromU64 \/ AsBytes
NextText == Parse \/ Format
NextArith == OpValue \/ OpRef \/ OpAssign
Next == NextCtor \/ NextText \/ NextArith

\* the constructors and as_bytes
SpecCtor == (InitF32 \/ InitU64) /\ [][NextCtor]_vars
\* parse alone
SpecParse == InitStr /\ [][Parse]_vars
\* parse, then format what it returned
SpecWhole == InitWhole /\ [][NextText]_vars
\* format, then parse what it returned, then format again
SpecUnit == InitUnit /\ [][NextText]_vars
\* the operators
SpecArith == InitPair /\ [][NextArith]_vars
\* every call on every input
Init == InitF32 \/ InitU64 \/ InitStr \/ InitWhole \/ InitUnit \/ InitPair
Spec == Init /\ [][Next]_vars

-----------------------------------------------------------------------------
(* what the claims are stated with *)

\* v * 2^dec as a real number when binary32 holds it, infinity when it is
\* 2^128 or more (a power of two never needs rounding above the subnormals)
ScaleExact(v, dec) ==
    IF ~IsFin(v) \/ IsZero(v) THEN v
    ELSE IF Top(v) + dec >= OverflowExp THEN Inf(v.neg)
    ELSE [v EXCEPT !.e = v.e + dec]

\* the decimal digits of a finite whole value
ExactDigits(x) == TimesPow2(IntToStr(x.m), x.e)

SuffixExp(suf) ==
    CASE suf = <<"B">> -> 0 [] suf = <<"K", "B">> -> 10 [] suf = <<"M", "B">> -> 20
      [] suf = <<"G", "B">> -> 30 [] suf = <<"T", "B">> -> 40

Done(i, op) == Len(hist) >= i /\ hist[i].op = op

-----------------------------------------------------------------------------
\* C1: for every f32 v, from_bytes(v).as_bytes() is v and from_kilo_bytes,
\* from_mega_bytes, from_giga_bytes, from_tera_bytes give v * 2^10, v * 2^20,
\* v * 2^30, v * 2^40 (the product as binary32 forms it: exact, or infinity
\* past the largest finite value); for v = 1 these are 1024, 1048576,
\* 1073741824 and 1099511627776.
C1_ConstructorsScale ==
    (inp = "f32" /\ Done(2, "as_bytes")) =>
        LET got == hist[2].out.val
        IN  /\ Done(1, "from_bytes") => got = ua
            /\ Done(1, "from_kilo_bytes") => got = ScaleExact(ua, 10)
            /\ Done(1, "from_mega_bytes") => got = ScaleExact(ua, 20)
            /\ Done(1, "from_giga_bytes") => got = ScaleExact(ua, 30)
            /\ Done(1, "from_tera_bytes") => got = ScaleExact(ua, 40)
            /\ (ua = One /\ Done(1, "from_kilo_bytes")) =>
                  ExactDigits(got) = <<"1", "0", "2", "4">>
            /\ (ua = One /\ Done(1, "from_mega_bytes")) =>
                  ExactDigits(got) = <<"1", "0", "4", "8", "5", "7", "6">>
            /\ (ua = One /\ Done(1, "from_giga_bytes")) =>
                  ExactDigits(got) = <<"1", "0", "7", "3", "7", "4", "1", "8", "2", "4">>
            /\ (ua = One /\ Done(1, "from_tera_bytes")) =>
                  ExactDigits(got) =
                      <<"1", "0", "9", "9", "5", "1", "1", "6", "2", "7", "7", "7", "6">>

\* from_tera_bytes(1.5).as_bytes() has been read
C1_Witness ==
    /\ inp = "f32" /\ ua = Norm(FALSE, 3, -1)
    /\ Done(1, "from_tera_bytes") /\ Done(2, "as_bytes")
    /\ hist[2].out.val = Norm(FALSE, 3, 39)

-----------------------------------------------------------------------------
\* a decimal number as the claims mean it: an optional "-", digits, and
\* optionally a point and more digits
IsPlainDecimal(w) ==
    LET body == IF w # <<>> /\ Head(w) = "-" THEN Tail(w) ELSE w
        ni   == DigitRun(body)
        rest == Drop(body, ni)
    IN  /\ ni >= 1
        /\ \/ rest = <<>>
           \/ /\ Len(rest) >= 2
              /\ Head(rest) = "."
              /\ DigitRun(Tail(rest)) = Len(rest) - 1
\* the binary32 nearest to the number w writes
PlainDecimalValue(w) ==
    LET neg  == Head(w) = "-"
        body == IF neg THEN Tail(w) ELSE w
        ni   == DigitRun(body)
    IN  DecToF32(neg, SubSeq(body, 1, ni) \o Drop(body, ni + 1), -Max(0, Len(body) - ni - 1))

\* w without the blanks at its two ends
RECURSIVE Strip(_)
Strip(w) ==
    IF w # <<>> /\ Head(w) = " " THEN Strip(Tail(w))
    ELSE IF w # <<>> /\ w[Len(w)] = " " THEN Strip(SubSeq(w, 1, Len(w) - 1))
    ELSE w

EndsWith(w, suf) ==
    Len(w) >= Len(suf) /\ SubSeq(w, Len(w) - Len(suf) + 1, Len(w)) = suf
\* what is left of w, trimmed, once the suffix is taken off its end
BeforeSuffix(w, suf) == Strip(SubSeq(Strip(w), 1, Len(Strip(w)) - Len(suf)))

Parsed == inp = "str" /\ Done(1, "from_str")
ParseOut == hist[1].out.val

\* C2: an input made of a decimal number n (optionally negative), optional
\* surrounding whitespace and a suffix that is exactly B, KB, MB, GB or TB
\* parses to the Unit of n * 2^e bytes, e = 0, 10, 20, 30, 40, with the sign
\* of n (n as binary32 reads it); "1KB" is 1024 bytes and "-1TB" is
\* -1099511627776 bytes.
C2_ParseScales ==
    Parsed =>
        /\ \A suf \in Suffixes :
              (EndsWith(Strip(src), suf) /\ IsPlainDecimal(BeforeSuffix(src, suf))) =>
                  /\ ParseOut.ok
                  /\ ParseOut.unit =
                        ScaleExact(PlainDecimalValue(BeforeSuffix(src, suf)), SuffixExp(suf))
        /\ src = <<"1", "K", "B">> =>
              ParseOut.ok /\ ~ParseOut.unit.neg
                /\ ExactDigits(ParseOut.unit) = <<"1", "0", "2", "4">>
        /\ src = <<"-", "1", "T", "B">> =>
              ParseOut.ok /\ ParseOut.unit.neg
                /\ ExactDigits(ParseOut.unit) =
                      <<"1", "0", "9", "9", "5", "1", "1", "6", "2", "7", "7", "7", "6">>

\* " -1.5 GB " has been parsed, to -1.5 * 2^30 bytes
C2_Witness ==
    /\ Parsed /\ src = <<" ", "-", "1", ".", "5", " ", "G", "B", " ">>
    /\ ParseOut.ok /\ ParseOut.unit = Norm(TRUE, 3, 29)

HasNumeric(w) == \E i \in 1..Len(w) : IsNumeric(w[i])
\* the text after the last numeric character of w, trimmed
AfterLastNumeric(w) ==
    LET last == CHOOSE i \in 1..Len(w) :
                    IsNumeric(w[i]) /\ \A j \in (i + 1)..Len(w) : ~IsNumeric(w[j])
    IN  Strip(SubSeq(w, last + 1, Len(w)))

\* C3: parse fails, with an error value that carries the input, for every
\* input without a numeric character and for every input whose trimmed text
\* after the last numeric character is not exactly B, KB, MB, GB or TB (an
\* empty suffix, a lower-case one, an unknown unit); "10XB", "abc" and ""
\* fail.
C3_ParseRejects ==
    Parsed =>
        /\ (~HasNumeric(src) \/ AfterLastNumeric(src) \notin Suffixes) =>
              ~ParseOut.ok /\ ParseOut.err.input = src
        /\ src \in {<<"1", "0", "X", "B">>, <<"a", "b", "c">>, <<>>} => ~ParseOut.ok

\* "1kb", whose suffix is in lower case, has been rejected
C3_Witness ==
    /\ Parsed /\ src = <<"1", "k", "b">>
    /\ ~ParseOut.ok /\ ParseOut.err.input = src

\* w with every comma of its numeric prefix (the text up to the last numeric
\* character) made a point
PointsForCommas(w) ==
    [i \in 1..Len(w) |->
        IF w[i] = "," /\ \E j \in (i + 1)..Len(w) : IsNumeric(w[j]) THEN "." ELSE w[i]]
Outcome(res) == IF res.ok THEN <<"unit", res.unit>> ELSE <<"error">>

\* C9: a comma in the numeric prefix is read as a point: every input parses
\* to the same outcome (the same Unit, or a failure) as the input with each
\* comma of its numeric prefix replaced by a point; "1,5KB" is 1536 bytes.
C9_CommaIsPoint ==
    Parsed =>
        /\ Outcome(ParseOut) = Outcome(from_str(PointsForCommas(src)))
        /\ src = <<"1", ",", "5", "K", "B">> =>
              ParseOut.ok /\ ExactDigits(ParseOut.unit) = <<"1", "5", "3", "6">>

\* " ,5 KB", with a comma and blanks, has been parsed to 512 bytes
C9_Witness ==
    /\ Parsed /\ src = <<" ", ",", "5", " ", "K", "B">>
    /\ ParseOut.ok /\ ParseOut.unit = Norm(FALSE, 1, 9)

-----------------------------------------------------------------------------
\* the unit a formatted string ends with, and the numeric part before it
TierOf(w) ==
    IF Len(w) >= 2 /\ w[Len(w) - 1] \in {"K", "M", "G", "T"}
    THEN SubSeq(w, Len(w) - 1, Len(w)) ELSE <<"B">>
NumPart(w) == SubSeq(w, 1, Len(w) - Len(TierOf(w)))
Unsigned(w) == IF w # <<>> /\ Head(w) = "-" THEN Tail(w) ELSE w

\* the largest unit in which |x| is at least 1: |x| >= 2^k iff the leading
\* bit of x is at 2^k or above
TierByMagnitude(x) ==
    IF IsNaN(x) \/ IsZero(x) THEN <<"B">>
    ELSE IF IsInf(x) \/ Top(x) >= 40 THEN <<"T", "B">>
    ELSE IF Top(x) >= 30 THEN <<"G", "B">>
    ELSE IF Top(x) >= 20 THEN <<"M", "B">>
    ELSE IF Top(x) >= 10 THEN <<"K", "B">>
    ELSE <<"B">>

Formatted == inp = "unit" /\ Done(1, "fmt")
FormatOut == hist[1].out.val

\* C4: the unit of the formatted string is chosen from |b| alone: TB if
\* |b| >= 2^40, else GB if |b| >= 2^30, else MB if |b| >= 2^20, else KB if
\* |b| >= 2^10, else B; b and -b format with the same unit (-1.5 * 2^30
\* bytes with GB).
C4_TierByMagnitude ==
    Formatted =>
        /\ TierOf(FormatOut) = TierByMagnitude(ua)
        /\ TierOf(fmt(FNeg(ua))) = TierOf(FormatOut)
        /\ ua = Norm(TRUE, 3, 29) => TierOf(FormatOut) = <<"G", "B">>

\* -1.5 * 2^30 bytes has been formatted, as "-1.50GB"
C4_Witness ==
    /\ Formatted /\ ua = Norm(TRUE, 3, 29)
    /\ FormatOut = <<"-", "1", ".", "5", "0", "G", "B">>

AllDigits(w) == w # <<>> /\ \A i \in 1..Len(w) : IsDigit(w[i])
\* digits, a point, two digits
TwoDecimals(w) ==
    /\ Len(w) >= 4 /\ w[Len(w) - 2] = "."
    /\ AllDigits(SubSeq(w, 1, Len(w) - 3)) /\ AllDigits(SubSeq(w, Len(w) - 1, Len(w)))
\* w, of that form, is |x| / 2^dec rounded to two decimals (ties to even):
\* with N the number w writes without its point, |100 * |x| / 2^dec - N| <= 1/2
IsRoundedQuotient(w, x, dec) ==
    LET ds == SubSeq(w, 1, Len(w) - 3) \o SubSeq(w, Len(w) - 1, Len(w))
        d  == x.e - dec
    IN  IF d >= 0 THEN ds = TimesPow2(IntToStr(x.m), d) \o <<"0", "0">>
        ELSE LET N    == DigitsVal(ds)
                 p    == Pow2(-d)
                 diff == 100 * x.m - N * p
                 dist == IF diff < 0 THEN -diff ELSE diff
             IN  2 * dist <= p /\ (2 * dist = p => N % 2 = 0)

\* the numeric part of the formatted string is right for a unit above B
ScaledPartOK ==
    /\ TwoDecimals(Unsigned(NumPart(FormatOut)))
    /\ IsRoundedQuotient(Unsigned(NumPart(FormatOut)), ua, SuffixExp(TierOf(FormatOut)))
SignKept == (NumPart(FormatOut) # <<>> /\ Head(NumPart(FormatOut)) = "-") <=> ua.neg

\* C5 as it was claimed, for the finite byte counts: the numeric part has
\* two decimals for TB, GB, MB and KB, and no fractional digits for B
C5_AsClaimed ==
    (Formatted /\ IsFin(ua)) =>
        /\ SignKept
        /\ TierOf(FormatOut) # <<"B">> => ScaledPartOK
        /\ TierOf(FormatOut) = <<"B">> => AllDigits(Unsigned(NumPart(FormatOut)))

\* C5, amended: for a finite byte count b the numeric part is b divided by
\* the unit's scale, with the sign of b; for TB, GB, MB and KB it is rounded
\* to exactly two decimals; for B it is the shortest decimal that reads back
\* as b, which has no fractional digits exactly when b is a whole number.
C5_NumericPart ==
    (Formatted /\ IsFin(ua)) =>
        /\ SignKept
        /\ TierOf(FormatOut) # <<"B">> => ScaledPartOK
        /\ TierOf(FormatOut) = <<"B">> =>
              /\ AllDigits(Unsigned(NumPart(FormatOut))) <=> ua.e >= 0
              /\ ParseF32(NumPart(FormatOut)) = [ok |-> TRUE, val |-> ua]

\* -1.5 bytes has been formatted, as "-1.5B"; and so has 2^20 - 1 bytes
C5_Witness ==
    /\ Formatted /\ ua = Norm(TRUE, 3, -1)
    /\ FormatOut = <<"-", "1", ".", "5", "B">>

-----------------------------------------------------------------------------
Reformatted == inp = "unit" /\ Len(hist) = 3
Reparsed == hist[2].out.val
FormatAgain == hist[3].out.val
Minus(neg) == IF neg THEN <<"-">> ELSE <<>>
NextTier(suf) ==
    CASE suf = <<"K", "B">> -> <<"M", "B">> [] suf = <<"M", "B">> -> <<"G", "B">>
      [] suf = <<"G", "B">> -> <<"T", "B">> [] OTHER -> suf
\* the formatted string is 1024.00 of a unit that has a larger one
RoundsToNextTier(w) ==
    /\ Unsigned(NumPart(w)) = <<"1", "0", "2", "4", ".", "0", "0">>
    /\ TierOf(w) \in {<<"K", "B">>, <<"M", "B">>, <<"G", "B">>}

\* C10 as it was claimed: formatting what parse(format(u)) returns gives
\* format(u) again
C10_AsClaimed ==
    (inp = "unit" /\ IsFin(ua)) =>
        /\ Len(hist) >= 2 => Reparsed.ok
        /\ Len(hist) = 3 => FormatAgain = FormatOut

\* C10, amended: for every Unit u with a finite byte count parse(format(u))
\* succeeds, and formatting the parsed Unit yields format(u) again, except
\* when format(u) is 1024.00 or -1024.00 in KB, MB or GB (the byte count
\* rounds up to the next unit's threshold): then it yields 1.00 or -1.00 in
\* the next larger unit.
C10_TextRoundTrip ==
    (inp = "unit" /\ IsFin(ua)) =>
        /\ Len(hist) >= 2 => Reparsed.ok
        /\ Len(hist) = 3 =>
              FormatAgain =
                 IF RoundsToNextTier(FormatOut)
                 THEN Minus(ua.neg) \o <<"1", ".", "0", "0">> \o NextTier(TierOf(FormatOut))
                 ELSE FormatOut

\* 2^20 - 1 bytes has gone through format, parse and format
C10_Witness ==
    /\ Reformatted /\ ua = from_u64(1048575)
    /\ FormatOut = <<"1", "0", "2", "4", ".", "0", "0", "K", "B">>
    /\ FormatAgain = <<"1", ".", "0", "0", "M", "B">>

-----------------------------------------------------------------------------
\* C6: for every whole n with 1 <= n <= 1023, with or without a minus sign,
\* parsing "n" + X and formatting the Unit gives "n.00" + X for X among TB,
\* GB, MB, KB, and "nB" for B ("10TB" -> "10.00TB", "-10KB" -> "-10.00KB",
\* "10B" -> "10B").
C6_WholeSizes ==
    (inp = "whole" /\ cnt >= 1 /\ cnt <= 1023) =>
        /\ Len(hist) >= 1 => hist[1].out.val.ok
        /\ Len(hist) = 2 =>
              LET suf  == TierOf(src)
                  text == hist[2].out.val
              IN  /\ suf = <<"B">> => text = src
                  /\ suf # <<"B">> => text = NumPart(src) \o <<".", "0", "0">> \o suf
                  /\ src = <<"1", "0", "T", "B">> => text = <<"1", "0", ".", "0", "0", "T", "B">>
                  /\ src = <<"1", "0", "B">> => text = <<"1", "0", "B">>

\* "-10KB" has been parsed and formatted, as "-10.00KB"
C6_Witness ==
    /\ inp = "whole" /\ cnt = 10 /\ src = <<"-", "1", "0", "K", "B">>
    /\ Len(hist) = 2 /\ hist[2].op = "fmt"
    /\ hist[2].out.val = <<"-", "1", "0", ".", "0", "0", "K", "B">>

-----------------------------------------------------------------------------
\* an f32: a NaN, an infinity or a finite value in binary32's range
IsF32(x) ==
    /\ x.k \in {"nan", "inf", "fin"}
    /\ x.k = "fin" =>
          /\ x.m >= 0 /\ x.m < Pow2(MantBits)
          /\ x.e >= MinExp /\ (x.m > 0 => Top(x) < OverflowExp)
Returned(call) ==
    CASE call.out.tag = "unit" -> IsF32(call.out.val)
      [] call.out.tag = "f32" -> IsF32(call.out.val)
      [] call.out.tag = "text" -> call.out.val # <<>>
      [] call.out.tag = "none" -> IsF32(ua) /\ IsF32(ub)
      [] call.out.tag = "result" ->
            /\ call.op = "from_str"
            /\ call.out.val.ok => IsF32(call.out.val.unit)
DivByZero == inp = "pair" /\ IsFin(ub) /\ IsZero(ub) /\ hist # <<>> /\ hist[1].op \in {"div", "div_assign"}
Overflows == inp = "pair" /\ IsFin(ua) /\ IsFin(ub) /\ hist # <<>> /\ hist[1].op \in {"mul", "mul_assign"}
               /\ Top(ua) + Top(ub) >= OverflowExp

\* C7: every constructor, as_bytes, formatting and every operator in every
\* form returns a value (an f32, a Unit, a string) on every input, a division
\* by a zero Unit and an overflowing product included, which give an infinity
\* or a NaN; only parse returns a result that can be an error, and it returns
\* a Unit or an error value for every input string.
C7_OnlyParseFails ==
    /\ \A i \in 1..Len(hist) : Returned(hist[i])
    /\ DivByZero => LET q == IF hist[1].op = "div" THEN hist[1].out.val ELSE ua
                    IN  IsInf(q) \/ IsNaN(q)
    /\ (Overflows /\ hist[1].op = "mul") => IsInf(hist[1].out.val)
    /\ (inp = "str" /\ hist # <<>> /\ src = <<"1", "sup2", "B">>) => ~hist[1].out.val.ok

\* 1 has been divided by a zero Unit, giving an infinity
C7_Witness ==
    /\ DivByZero /\ hist[1].op = "div" /\ ua = One
    /\ IsInf(hist[1].out.val)

-----------------------------------------------------------------------------
\* the IEEE operation an operator stands for
OpOnBytes(op, x, y) ==
    CASE op = "add" -> FAdd(as_bytes(x), as_bytes(y))
      [] op = "sub" -> FSub(as_bytes(x), as_bytes(y))
      [] op = "mul" -> FMul(as_bytes(x), as_bytes(y))
      [] op = "div" -> FDiv(as_bytes(x), as_bytes(y))
\* small whole Units, and the Unit of a small whole number
IsSmallWhole(x) == IsFin(x) /\ ~IsZero(x) /\ x.e >= 0 /\ Top(x) < 10
WholeAbs(x) == x.m * Pow2(x.e)
WholeOf(x) == (IF x.neg THEN -1 ELSE 1) * WholeAbs(x)
UnitOfWhole(i) == IF i < 0 THEN FNeg(from_u64(-i)) ELSE from_u64(i)
WholeResult(op, x, y) ==
    CASE op = "add" -> UnitOfWhole(WholeOf(x) + WholeOf(y))
      [] op = "sub" -> UnitOfWhole(WholeOf(x) - WholeOf(y))
      [] op = "mul" -> UnitOfWhole(WholeOf(x) * WholeOf(y))
      [] op = "div" -> UnitOfWhole((IF x.neg = y.neg THEN 1 ELSE -1) * (WholeAbs(x) \div WholeAbs(y)))
Divides(op, x, y) == op = "div" => WholeAbs(x) % WholeAbs(y) = 0
OperatorStep(op) ==
    LET call == hist'[1]
        want == OpOnBytes(op, ua, ub)
    IN  /\ call.op \in {op, op \o "_ref"} =>
              /\ call.out = UnitOut(want)
              /\ ua' = ua /\ ub' = ub
        /\ call.op = op \o "_assign" => (ua' = want /\ ub' = ub)
        /\ (call.op \in {op, op \o "_ref"} /\ IsSmallWhole(ua) /\ IsSmallWhole(ub) /\ Divides(op, ua, ub)) =>
              call.out.val = WholeResult(op, ua, ub)
        /\ (call.op = op \o "_assign" /\ IsSmallWhole(ua) /\ IsSmallWhole(ub) /\ Divides(op, ua, ub)) =>
              ua' = WholeResult(op, ua, ub)

\* C8: for each operator and all Units a and b, a op b and &a op &b return
\* the Unit whose byte count is a.as_bytes() op b.as_bytes() and leave a and b
\* as they were, and a op= b sets a to that Unit and leaves b as it was
\* (5 + 3 is 8 bytes in each form).
C8_OperatorForms ==
    [][(inp = "pair" /\ hist = <<>> /\ hist' # <<>>) => \A op \in Ops : OperatorStep(op)]_vars

\* 5 += 3 has been done: the left operand is 8 bytes, the right one 3 bytes
C8_Witness ==
    /\ inp = "pair" /\ hist # <<>> /\ hist[1].op = "add_assign"
    /\ ua = from_u64(8) /\ ub = from_u64(3)

=============================================================================
